---------------------------- MODULE Spec2Model ----------------------------
(***************************************************************************)
(* Model of the codebase analyzer: the token-budget chunker                *)
(* (src/src/chunker.py), the analysis pipeline (src/src/analyzer.py,        *)
(* src/src/llm_provider.py, src/main.py) and the report aggregator          *)
(* (src/src/output_formatter.py).                                           *)
(***************************************************************************)
EXTENDS Integers, Sequences, FiniteSets, TLC

\* ------------------------------------------------------------------ bounds
\* Largest number of documents handed to the chunker.
MaxDocs == 3

\* ------------------------------------------------------ program constants
\* Caps of the report lists (output_formatter.py lines 161, 143, 116, 112).
MaxKeyFunctions == 50

MaxKeyMethods == 5

MaxDetailedFiles == 20

MaxComplexFunctions == 10

\* Score above which a file is listed in high_complexity_files (analyzer.py
\* line 78).
HighComplexity == 10

\* Score above which a file or function is kept in detailed_metrics
\* (output_formatter.py lines 111 and 115).
ComplexScore == 5

\* --------------------------------------------------------------- state
VARIABLES
    \* configuration (src/src/config.py)
    environ,               \* os.environ after load_dotenv()
    config,                \* the module-level config instance
    \* chunker (CodeChunker.create_chunks)
    code_files,            \* the input list, in the order the caller enumerates it
    max_tokens,            \* self.max_tokens (config.max_tokens_per_chunk)
    sep_tokens,            \* tokens the encoder spends on the "\n" joining two file blocks
    sorted_files,          \* local sorted_files
    file_idx,              \* position of the for loop in sorted_files (0 = before the loop)
    chunks,                \* local chunks: sequence of [files, chunk_id, token_count]
    printed,               \* the "Chunk N: ..." lines printed, one per appended chunk
    current_chunk_files,   \* local current_chunk_files
    current_tokens,        \* local current_tokens
    chunk_id,              \* local chunk_id
    pc,                    \* control position
    \* collaborators
    cc_visit,              \* radon's cc_visit per path: raised, or the scored blocks
    now,                   \* the clock datetime.now() reads
    \* pipeline (main, CodeAnalyzer.analyze_with_llm)
    calls,                 \* the summarizer calls made so far, in order
    project_overview,      \* local project_overview of analyze_with_llm
    chunk_analyses,        \* local chunk_analyses
    chunk_idx,             \* number of chunks the loop at line 174 has finished
    analysis_results,      \* what analyze_with_llm returned
    report,                \* formatted_results of main
    report2,               \* the result of a second format_results call
    saved,                 \* files written by save_results and save_summary
    exit_status            \* what main returned (-1 while it runs)

chunker_vars == <<sorted_files, file_idx, printed, current_chunk_files,
                  current_tokens, chunk_id>>

pipeline_vars == <<calls, project_overview, chunk_analyses, chunk_idx,
                   analysis_results, report, report2, saved, exit_status>>

vars == <<environ, config, code_files, max_tokens, sep_tokens, chunks, pc, cc_visit, now,
          chunker_vars, pipeline_vars>>

\* ------------------------------------------------------------ documents
\* relative_path values; their integer order stands for the lexicographic
\* order of the path strings.
Paths == 1..MaxDocs

\* Token counts of one file's own serialized block (its five text parts).
TokenValues == {40, 55, 95, 100, 500}

\* Values of config.max_tokens_per_chunk (an unvalidated int field).
Budgets == {0, 100}

\* Tokens added per join of two file blocks.
SepValues == {0, 5}

Range(s) == {s[i] : i \in 1..Len(s)}

InjectiveSeqs(S, n) == {s \in [1..n -> S] : \A i, j \in 1..n : i # j => s[i] # s[j]}

\* CodeFile: relative_path, extension and content; the content is kept as the
\* number of tokens its serialized block encodes to.
DocLists(exts) ==
    UNION {
        {[i \in 1..n |-> [relative_path |-> ps[i], extension |-> es[i], tokens |-> ts[i]]] :
            ps \in InjectiveSeqs(Paths, n), es \in [1..n -> exts], ts \in [1..n -> TokenValues]}
        : n \in 0..MaxDocs}

\* Op folded over s from the left, Op(... Op(Op(acc, s[1]), s[2]) ..., s[n]):
\* a for loop over s that updates acc. Each step's value is computed once and
\* bound before the next step uses it.
RECURSIVE FoldLeft(_, _, _)
FoldLeft(Op(_, _), acc, s) ==
    IF s = <<>> THEN acc
    ELSE CHOOSE r \in {FoldLeft(Op, next, Tail(s)) : next \in {Op(acc, Head(s))}} : TRUE

RECURSIVE SumSeq(_)
SumSeq(s) == IF s = <<>> THEN 0 ELSE Head(s) + SumSeq(Tail(s))

\* CodeChunk.to_text: the file blocks in list order, joined by "\n".
\* The text is kept as the sequence of its blocks, each the file's path (the
\* "=== File: ..." header) and the token count of the block.
to_text(files) ==
    [i \in 1..Len(files) |-> [path |-> files[i].relative_path, tokens |-> files[i].tokens]]

\* CodeChunker.count_tokens: len(encoding.encode(text)).
count_tokens(text) ==
    IF Len(text) = 0 THEN 0
    ELSE SumSeq([i \in 1..Len(text) |-> text[i].tokens]) + sep_tokens * (Len(text) - 1)

\* CodeChunk(files, chunk_id) with token_count set by the caller.
CodeChunk(files, id, tokens) == [files |-> files, chunk_id |-> id, token_count |-> tokens]

\* sorted(code_files, key=lambda f: f.relative_path): insertion by key; f goes
\* before the first element whose key is greater.
RECURSIVE InsertByPath(_, _)
InsertByPath(f, s) ==
    IF s = <<>> THEN <<f>>
    ELSE IF f.relative_path < Head(s).relative_path THEN <<f>> \o s
    ELSE <<Head(s)>> \o InsertByPath(f, Tail(s))

RECURSIVE SortRec(_)
SortRec(cf) ==
    IF cf = <<>> THEN <<>>
    ELSE InsertByPath(cf[Len(cf)], SortRec(SubSeq(cf, 1, Len(cf) - 1)))

\* Mutant: the path sort is dropped.
M_sorted_by_path(cf) == cf

\* create_chunks line 67.
sorted_by_path(cf) == SortRec(cf)

\* The loop state of create_chunks.
LoopState(ch, pr, ccf, ct, cid) ==
    [chunks |-> ch, printed |-> pr, current_chunk_files |-> ccf,
     current_tokens |-> ct, chunk_id |-> cid]

\* Mutant: on overflow the pending files are discarded instead of being
\* emitted as a chunk.
M_SealOrAppend(s, file, test_tokens) ==
    IF test_tokens > max_tokens /\ s.current_chunk_files # <<>>
    THEN LoopState(s.chunks, s.printed, <<file>>,
                   count_tokens(to_text(<<file>>)), s.chunk_id)
    ELSE [s EXCEPT !.current_chunk_files = Append(@, file),
                   !.current_tokens = test_tokens]

\* Mutant: an appended file adds its own block's tokens to current_tokens,
\* the joining newline left out.
M_SealOrAppendOwnTokens(s, file, test_tokens) ==
    IF test_tokens > max_tokens /\ s.current_chunk_files # <<>>
    THEN LoopState(
            Append(s.chunks, CodeChunk(s.current_chunk_files, s.chunk_id, s.current_tokens)),
            Append(s.printed, [chunk_id |-> s.chunk_id, large |-> FALSE]),
            <<file>>,
            count_tokens(to_text(<<file>>)),
            s.chunk_id + 1)
    ELSE [s EXCEPT !.current_chunk_files = Append(@, file),
                   !.current_tokens = @ + file.tokens]

\* create_chunks lines 77-91: seal the pending list, or append the file to it.
SealOrAppend(s, file, test_tokens) ==
    IF test_tokens > max_tokens /\ s.current_chunk_files # <<>>
    THEN LoopState(
            Append(s.chunks, CodeChunk(s.current_chunk_files, s.chunk_id, s.current_tokens)),
            Append(s.printed, [chunk_id |-> s.chunk_id, large |-> FALSE]),
            <<file>>,
            count_tokens(to_text(<<file>>)),
            s.chunk_id + 1)
    ELSE [s EXCEPT !.current_chunk_files = Append(@, file),
                   !.current_tokens = test_tokens]

\* Mutant: the single-file case is never taken.
M_HandleLarge(s, file, test_tokens) == s

\* Mutant: the single-file chunk is emitted without advancing chunk_id.
M_HandleLargeSameId(s, file, test_tokens) ==
    IF test_tokens > max_tokens /\ Len(s.current_chunk_files) <= 1
    THEN LoopState(
            Append(s.chunks, CodeChunk(<<file>>, s.chunk_id, test_tokens)),
            Append(s.printed, [chunk_id |-> s.chunk_id, large |-> TRUE]),
            <<>>, 0, s.chunk_id)
    ELSE s

\* create_chunks lines 93-104: the "single file exceeds token limit" case.
\* current_chunk_files[:-1] is empty when the list holds at most one file.
HandleLarge(s, file, test_tokens) ==
    IF test_tokens > max_tokens /\ Len(s.current_chunk_files) <= 1
    THEN LoopState(
            Append(s.chunks, CodeChunk(<<file>>, s.chunk_id, test_tokens)),
            Append(s.printed, [chunk_id |-> s.chunk_id, large |-> TRUE]),
            <<>>, 0, s.chunk_id + 1)
    ELSE s

\* create_chunks lines 71-104: one iteration of the for loop.
LoopBody(s, file) ==
    LET test_tokens == count_tokens(to_text(s.current_chunk_files \o <<file>>))
    IN HandleLarge(SealOrAppend(s, file, test_tokens), file, test_tokens)

\* Mutant: a final chunk is appended whatever the pending list holds.
M_FinalChunk(s) ==
    [s EXCEPT
        !.chunks = Append(@, CodeChunk(s.current_chunk_files, s.chunk_id, s.current_tokens)),
        !.printed = Append(@, [chunk_id |-> s.chunk_id, large |-> FALSE])]

\* create_chunks lines 106-111: the remaining files become the final chunk.
FinalChunk(s) ==
    IF s.current_chunk_files # <<>>
    THEN [s EXCEPT
            !.chunks = Append(@, CodeChunk(s.current_chunk_files, s.chunk_id, s.current_tokens)),
            !.printed = Append(@, [chunk_id |-> s.chunk_id, large |-> FALSE])]
    ELSE s

\* create_chunks line 71: the for loop over the sorted files.
RunLoop(s, files) == FoldLeft(LoopBody, s, files)

\* create_chunks as a function of its argument: the returned chunk list.
create_chunks(cf) ==
    FinalChunk(RunLoop(LoopState(<<>>, <<>>, <<>>, 0, 0), sorted_by_path(cf))).chunks

\* ------------------------------------------------------- Python values
\* Values json.loads can return, tagged with their Python type.
PyNone == [t |-> "none", v |-> <<>>]

PyInt(n) == [t |-> "int", v |-> n]

PyList(s) == [t |-> "list", v |-> s]

PyDict(r) == [t |-> "dict", v |-> r]

\* dict.get(key, default) on a record standing for a dict.
Get(d, key, default) == IF key \in DOMAIN d THEN d[key] ELSE default

Min(a, b) == IF a <= b THEN a ELSE b

\* s[:n]
FirstN(s, n) == SubSeq(s, 1, Min(Len(s), n))

\* ------------------------------------------------- summarizer responses
\* A response text is a sequence of symbols: "fence" (the three backquotes), the tag "json",
\* single characters, and "body", the members of a JSON object written between
\* "{" and "}" (val is the dict they denote).
Ch(c) == [c |-> c, val |-> PyNone]

Body(d) == [c |-> "body", val |-> d]

ObjectText(d) == <<Ch("{"), Body(d), Ch("}")>>

\* str.strip()
RECURSIVE LStrip(_)
LStrip(text) ==
    IF text # <<>> /\ Head(text).c = " " THEN LStrip(Tail(text)) ELSE text

RECURSIVE RStrip(_)
RStrip(text) ==
    IF text # <<>> /\ text[Len(text)].c = " "
    THEN RStrip(SubSeq(text, 1, Len(text) - 1)) ELSE text

Strip(text) == RStrip(LStrip(text))

\* response.find(fence, start): position of the first fence at or after
\* position from (1-based), 0 standing for Python's -1.
FindFence(text, from) ==
    LET hits == {i \in from..Len(text) : text[i].c = "fence"}
    IN IF hits = {} THEN 0 ELSE CHOOSE i \in hits : \A j \in hits : i <= j

\* response.find(fence + "json")
FindTagged(text) ==
    LET hits == {i \in 1..Len(text) - 1 : text[i].c = "fence" /\ text[i + 1].c = "json"}
    IN IF hits = {} THEN 0 ELSE CHOOSE i \in hits : \A j \in hits : i <= j

\* response[json_start:json_end] with first the first payload position and
\* close the position find returned; a find of -1 makes the slice end one
\* character before the end of the text.
Slice(text, first, close) ==
    IF close = 0 THEN SubSeq(text, first, Len(text) - 1)
    ELSE SubSeq(text, first, close - 1)

\* llm_provider.py lines 143-150: the payload handed to json.loads.
ExtractPayload(response) ==
    IF FindTagged(response) # 0
    THEN LET json_start == FindTagged(response) + 2
         IN Strip(Slice(response, json_start, FindFence(response, json_start)))
    ELSE IF FindFence(response, 1) # 0
    THEN LET json_start == FindFence(response, 1) + 1
         IN Strip(Slice(response, json_start, FindFence(response, json_start)))
    ELSE response

\* json.loads(text): the documents of the model are an object, the number 5
\* and the empty array, each with optional surrounding whitespace; any
\* other text raises JSONDecodeError (ok = FALSE).
json_loads(text) ==
    LET t == Strip(text) IN
    IF Len(t) = 3 /\ t[1].c = "{" /\ t[2].c = "body" /\ t[3].c = "}"
    THEN [ok |-> TRUE, value |-> t[2].val]
    ELSE IF Len(t) = 1 /\ t[1].c = "5" THEN [ok |-> TRUE, value |-> PyInt(5)]
    ELSE IF Len(t) = 2 /\ t[1].c = "[" /\ t[2].c = "]" THEN [ok |-> TRUE, value |-> PyList(<<>>)]
    ELSE [ok |-> FALSE, value |-> PyNone]

\* What the remote model does with a call: fail in transport (or time out),
\* or reply with a text.
Fails == [failed |-> TRUE, content |-> <<>>]

Reply(text) == [failed |-> FALSE, content |-> text]

\* Mutant: the failure is swallowed and an empty text returned.
M_invoke(outcome) == [raised |-> FALSE, content |-> outcome.content]

\* LLMProvider.invoke: returns response.content, or logs and re-raises.
invoke(outcome) ==
    IF outcome.failed THEN [raised |-> TRUE, content |-> <<>>]
    ELSE [raised |-> FALSE, content |-> outcome.content]

\* The except branch of analyze_code_chunk (lines 153-161).
RawPartial(id, response) ==
    PyDict([chunk_id |-> id, files |-> PyList(<<>>),
            raw_response |-> response, parse_error |-> TRUE])

IsRawPartial(p) == p.t = "dict" /\ "parse_error" \in DOMAIN p.v

\* analyze_code_chunk lines 139-161, after invoke returned response.
ParseChunkResponse(response, id) ==
    LET payload == ExtractPayload(response)
        parsed == json_loads(payload)
    IN IF parsed.ok THEN parsed.value ELSE RawPartial(id, payload)

\* LLMProvider.analyze_code_chunk: invoke, then parse.
analyze_code_chunk(outcome, id) ==
    LET r == invoke(outcome)
    IN IF r.raised THEN [raised |-> TRUE, value |-> PyNone]
       ELSE [raised |-> FALSE, value |-> ParseChunkResponse(r.content, id)]

\* LLMProvider.generate_project_overview lines 200-224: a parsed dict gets
\* repository_info; a parsed non-dict makes the item assignment raise
\* TypeError; a parse failure gives the "Unknown" overview.
generate_project_overview(outcome) ==
    LET r == invoke(outcome)
        payload == ExtractPayload(r.content)
        parsed == json_loads(payload)
    IN IF r.raised THEN [raised |-> TRUE, value |-> PyNone]
       ELSE IF ~parsed.ok
       THEN [raised |-> FALSE,
             value |-> PyDict([project_name |-> "Unknown", purpose |-> payload,
                               parse_error |-> TRUE])]
       ELSE IF parsed.value.t # "dict" THEN [raised |-> TRUE, value |-> PyNone]
       ELSE [raised |-> FALSE, value |-> parsed.value]

\* ------------------------------------------------------------ analyzer
\* CodeAnalyzer._classify_complexity
classify_complexity(score) ==
    IF score <= 5 THEN "low" ELSE IF score <= 10 THEN "medium" ELSE "high"

RECURSIVE MaxScore(_)
MaxScore(blocks) ==
    IF blocks = <<>> THEN 0
    ELSE LET m == MaxScore(Tail(blocks))
         IN IF Head(blocks).complexity > m THEN Head(blocks).complexity ELSE m

\* Mutant: the quotient is cut to hundredths instead of rounded.
M_RoundHundredths(total, count) == (100 * total) \div count

\* round(total / count, 2), kept in hundredths; an exact tie goes to the even
\* hundredth.
RoundHundredths(total, count) ==
    LET q == (100 * total) \div count
        r == (100 * total) % count
    IN IF 2 * r < count THEN q
       ELSE IF 2 * r > count THEN q + 1
       ELSE IF q % 2 = 0 THEN q ELSE q + 1

\* Mutant: a file cc_visit fails on is still counted as analyzed.
M_AnalyzeFile(acc, file) ==
    IF file.extension \notin {".py", ".java"} THEN acc
    ELSE LET cc_results == cc_visit[file.relative_path]
             max_complexity == MaxScore(cc_results.blocks)
         IN [files |-> IF cc_results.raised THEN acc.files
                       ELSE Append(acc.files,
                               [path |-> file.relative_path,
                                functions |->
                                   [k \in 1..Len(cc_results.blocks) |->
                                       [name |-> cc_results.blocks[k].name,
                                        complexity |-> cc_results.blocks[k].complexity,
                                        type |-> cc_results.blocks[k].letter,
                                        line |-> cc_results.blocks[k].lineno,
                                        complexity_level |->
                                           classify_complexity(cc_results.blocks[k].complexity)]],
                                max_complexity |-> max_complexity,
                                complexity_level |-> classify_complexity(max_complexity)]),
             high |-> IF max_complexity > HighComplexity
                      THEN Append(acc.high, [path |-> file.relative_path,
                                             max_complexity |-> max_complexity])
                      ELSE acc.high,
             total |-> acc.total + max_complexity,
             count |-> acc.count + 1]

\* analyze_complexity lines 46-89: the loop body for one file. acc holds
\* complexity_results["files"], the high_complexity_files list,
\* total_complexity and analyzed_count.
AnalyzeFile(acc, file) ==
    IF file.extension \notin {".py", ".java"} THEN acc
    ELSE LET cc_results == cc_visit[file.relative_path] IN
         IF cc_results.raised THEN acc
         ELSE LET max_complexity == MaxScore(cc_results.blocks)
                  file_complexity ==
                      [path |-> file.relative_path,
                       functions |->
                          [k \in 1..Len(cc_results.blocks) |->
                              [name |-> cc_results.blocks[k].name,
                               complexity |-> cc_results.blocks[k].complexity,
                               type |-> cc_results.blocks[k].letter,
                               line |-> cc_results.blocks[k].lineno,
                               complexity_level |->
                                  classify_complexity(cc_results.blocks[k].complexity)]],
                       max_complexity |-> max_complexity,
                       complexity_level |-> classify_complexity(max_complexity)]
              IN [files |-> Append(acc.files, file_complexity),
                  high |-> IF max_complexity > HighComplexity
                           THEN Append(acc.high, [path |-> file.relative_path,
                                                  max_complexity |-> max_complexity])
                           ELSE acc.high,
                  total |-> acc.total + max_complexity,
                  count |-> acc.count + 1]

\* analyze_complexity line 46: the for loop over code_files.
AnalyzeFiles(acc, files) == FoldLeft(AnalyzeFile, acc, files)

\* CodeAnalyzer.analyze_complexity; average_complexity is in hundredths.
analyze_complexity(cf) ==
    LET acc == AnalyzeFiles([files |-> <<>>, high |-> <<>>, total |-> 0, count |-> 0], cf)
    IN [files |-> acc.files,
        summary |->
           [total_files |-> Len(cf),
            analyzed_files |-> acc.count,
            high_complexity_files |-> acc.high,
            average_complexity |->
               IF acc.count > 0 THEN RoundHundredths(acc.total, acc.count) ELSE 0]]

\* ----------------------------------------------------------- formatter
\* Mutant: the summary list is cut to the 20-file cap of detailed_metrics.
M_HighComplexityFiles(summary) ==
    FirstN(Get(summary, "high_complexity_files", <<>>), MaxDetailedFiles)

\* _format_complexity_analysis line 98: the list is passed through as is.
HighComplexityFiles(summary) == Get(summary, "high_complexity_files", <<>>)

\* Mutant: every function scored above 5 is kept.
M_ComplexFunctions(f) ==
    LET IsComplexFunc(func) == func.complexity > ComplexScore
        fs == SelectSeq(f.functions, IsComplexFunc)
    IN [k \in 1..Len(fs) |->
          [name |-> fs[k].name, complexity |-> fs[k].complexity, line |-> fs[k].line]]

\* _format_complexity_analysis lines 103-112: the complex_functions of one
\* file entry.
ComplexFunctions(f) ==
    LET IsComplexFunc(func) == func.complexity > ComplexScore
        fs == FirstN(SelectSeq(f.functions, IsComplexFunc), MaxComplexFunctions)
    IN [k \in 1..Len(fs) |->
          [name |-> fs[k].name, complexity |-> fs[k].complexity, line |-> fs[k].line]]

\* OutputFormatter._format_complexity_analysis (complexity_data non-empty).
format_complexity_analysis(complexity_data) ==
    LET summary == complexity_data.summary
        IsComplexFile(f) == Get(f, "max_complexity", 0) > ComplexScore
        Metric(f) ==
            [file |-> f.path,
             max_complexity |-> f.max_complexity,
             complexity_level |-> f.complexity_level,
             complex_functions |-> ComplexFunctions(f)]
        kept == FirstN(SelectSeq(complexity_data.files, IsComplexFile), MaxDetailedFiles)
    IN [summary |->
           [total_files_analyzed |-> Get(summary, "analyzed_files", 0),
            average_complexity |-> Get(summary, "average_complexity", 0),
            high_complexity_count |-> Len(HighComplexityFiles(summary))],
        high_complexity_files |-> HighComplexityFiles(summary),
        detailed_metrics |-> [k \in 1..Len(kept) |-> Metric(kept[k])]]

\* Mutant: method_count reports the retained methods.
M_ClassInfo(cls, file_path) ==
    LET kept == FirstN(Get(cls, "methods", <<>>), MaxKeyMethods)
    IN [name |-> Get(cls, "name", ""),
        file |-> file_path,
        method_count |-> Len(kept),
        key_methods |->
           [k \in 1..Len(kept) |->
              [name |-> Get(kept[k], "name", ""),
               complexity |-> Get(kept[k], "complexity", "unknown")]]]

\* _format_detailed_analysis lines 130-147: the class_info of one class.
ClassInfo(cls, file_path) ==
    LET methods == Get(cls, "methods", <<>>)
        kept == FirstN(methods, MaxKeyMethods)
    IN [name |-> Get(cls, "name", ""),
        file |-> file_path,
        method_count |-> Len(methods),
        key_methods |->
           [k \in 1..Len(kept) |->
              [name |-> Get(kept[k], "name", ""),
               complexity |-> Get(kept[k], "complexity", "unknown")]]]

\* lines 150-155: the entry of one key function.
FunctionInfo(func, file_path) ==
    [name |-> Get(func, "name", ""), file |-> file_path,
     description |-> Get(func, "description", "")]

\* lines 126-155: one per-file entry. An entry that is no dict has no .get
\* (AttributeError).
FileContribution(acc, fa) ==
    IF acc.raised \/ fa.t # "dict" THEN [acc EXCEPT !.raised = TRUE]
    ELSE LET file_path == Get(fa.v, "path", "unknown")
             cs == Get(fa.v, "classes", <<>>)
             fs == Get(fa.v, "key_functions", <<>>)
         IN [raised |-> FALSE,
             all_classes |->
                acc.all_classes \o [k \in 1..Len(cs) |-> ClassInfo(cs[k], file_path)],
             all_key_functions |->
                acc.all_key_functions \o [k \in 1..Len(fs) |-> FunctionInfo(fs[k], file_path)]]

\* line 126: the for loop over chunk["files"].
FileContributions(acc, entries) == FoldLeft(FileContribution, acc, entries)

\* lines 124-126 for one element of chunk_analyses: the test "files" in chunk
\* and the iteration of chunk["files"]. A dict is tested for the key and its
\* value must be iterable; a list is tested for an element "files" (the
\* lists of the model hold none); an int or None is not iterable (TypeError).
ChunkContribution(acc, chunk) ==
    IF acc.raised THEN acc
    ELSE IF chunk.t = "dict"
    THEN IF "files" \notin DOMAIN chunk.v THEN acc
         ELSE IF chunk.v.files.t = "list" THEN FileContributions(acc, chunk.v.files.v)
         ELSE [acc EXCEPT !.raised = TRUE]
    ELSE IF chunk.t = "list" THEN acc
    ELSE [acc EXCEPT !.raised = TRUE]

\* line 124: the for loop over chunk_analyses.
ChunkContributions(acc, cas) == FoldLeft(ChunkContribution, acc, cas)

\* Mutant: the function list is returned without the cap.
M_CapKeyFunctions(all_key_functions) == all_key_functions

\* line 161: all_key_functions[:50]
CapKeyFunctions(all_key_functions) == FirstN(all_key_functions, MaxKeyFunctions)

\* Mutant: the accumulators outlive the call (lists shared between calls), so
\* a later call starts from what the earlier one collected.
M_EmptyAccumulators ==
    IF report = PyNone
    THEN [raised |-> FALSE, all_classes |-> <<>>, all_key_functions |-> <<>>]
    ELSE [raised |-> FALSE, all_classes |-> report.detailed_analysis.classes,
          all_key_functions |-> report.detailed_analysis.key_functions]

\* The accumulators _format_detailed_analysis starts from (lines 121-122).
EmptyAccumulators == [raised |-> FALSE, all_classes |-> <<>>, all_key_functions |-> <<>>]

\* OutputFormatter._format_detailed_analysis; raised when the walk over
\* chunk_analyses raises.
format_detailed_analysis(cas) ==
    LET acc == ChunkContributions(EmptyAccumulators, cas)
    IN IF acc.raised THEN [raised |-> TRUE, value |-> PyNone]
       ELSE [raised |-> FALSE,
             value |->
                [total_classes_identified |-> Len(acc.all_classes),
                 total_key_functions_identified |-> Len(acc.all_key_functions),
                 classes |-> acc.all_classes,
                 key_functions |-> CapKeyFunctions(acc.all_key_functions)]]

\* OutputFormatter.format_results(analysis_results), called when the clock
\* reads t (datetime.now() at line 30). code_structure is built from the
\* regex matches on file contents, which the model does not carry.
format_results(ar, t) ==
    LET detailed == format_detailed_analysis(ar.chunk_analyses)
    IN IF detailed.raised THEN [raised |-> TRUE, value |-> PyNone]
       ELSE [raised |-> FALSE,
             value |->
                [metadata |-> [analysis_date |-> t, analyzer_version |-> "1.0.0"],
                 project_overview |->
                    [name |-> Get(ar.project_overview.v, "project_name", "Unknown")],
                 statistics |-> ar.statistics,
                 complexity_analysis |-> format_complexity_analysis(ar.complexity_analysis),
                 detailed_analysis |-> detailed.value]]

\* ------------------------------------------------------- configuration
\* An environment variable: unset, or set to a value.
Unset == [set |-> FALSE]

SetTo(v) == [set |-> TRUE, value |-> v]

\* os.getenv(name, default); os.getenv(name) without a default gives None,
\* which is kept as Unset.
getenv(e, name, default) == IF e[name].set THEN e[name].value ELSE default

\* The text of an integer: an optional minus sign and decimal digits.
IntText(neg, digits) == [neg |-> neg, digits |-> digits]

RECURSIVE DigitsValue(_)
DigitsValue(ds) ==
    IF ds = <<>> THEN 0 ELSE 10 * DigitsValue(SubSeq(ds, 1, Len(ds) - 1)) + ds[Len(ds)]

\* int(text) of from_env line 100.
int(text) == IF text.neg THEN 0 - DigitsValue(text.digits) ELSE DigitsValue(text.digits)

\* Python's "not v" on an Optional[str]: None and "" are falsy.
Falsy(v) == ~v.set \/ v.value = ""

\* values.get("llm_provider") == name: values holds only the fields that
\* passed validation so far.
ValuesProviderIs(values, name) ==
    "llm_provider" \in DOMAIN values /\ values["llm_provider"] = name

\* Config.validate_llm_provider (lines 59-64): FALSE stands for the ValueError.
validate_llm_provider(v) == v \in {"github", "openai", "anthropic"}

\* Config.validate_github_token (lines 66-71)
validate_github_token(v, values) == ~(ValuesProviderIs(values, "github") /\ Falsy(v))

\* Mutant: the OpenAI key is never required.
M_validate_openai_key(v, values) == TRUE

\* Config.validate_openai_key (lines 73-78)
validate_openai_key(v, values) == ~(ValuesProviderIs(values, "openai") /\ Falsy(v))

\* Config.validate_anthropic_key (lines 80-85)
validate_anthropic_key(v, values) == ~(ValuesProviderIs(values, "anthropic") /\ Falsy(v))

\* The ValidationError raised by the constructor.
ValidationError == [state |-> "error"]

\* No config instance yet (src.config not imported).
NotLoaded == [state |-> "unloaded"]

\* Config(...): the fields in declaration order, each validator seeing the
\* fields validated before it. max_tokens_per_chunk is a plain int field
\* (lines 37-40) without a validator.
Config(llm_provider, github_token, openai_api_key, anthropic_api_key, max_tokens_per_chunk) ==
    LET values == IF validate_llm_provider(llm_provider)
                  THEN [f \in {"llm_provider"} |-> llm_provider]
                  ELSE [f \in {} |-> ""]
    IN IF /\ validate_llm_provider(llm_provider)
          /\ validate_github_token(github_token, values)
          /\ validate_openai_key(openai_api_key, values)
          /\ validate_anthropic_key(anthropic_api_key, values)
       THEN [state |-> "ok",
             llm_provider |-> llm_provider,
             github_token |-> github_token,
             openai_api_key |-> openai_api_key,
             anthropic_api_key |-> anthropic_api_key,
             max_tokens_per_chunk |-> max_tokens_per_chunk]
       ELSE ValidationError

\* Config.from_env (lines 87-111)
from_env(e) ==
    Config(getenv(e, "LLM_PROVIDER", "github"),
           e["GITHUB_TOKEN"],
           e["OPENAI_API_KEY"],
           e["ANTHROPIC_API_KEY"],
           int(getenv(e, "MAX_TOKENS_PER_CHUNK", IntText(FALSE, <<6, 0, 0, 0>>))))

\* The environment of a run with the GitHub provider and the given budget text.
RunEnviron(budget) ==
    [LLM_PROVIDER |-> SetTo("github"),
     GITHUB_TOKEN |-> SetTo("tok"),
     OPENAI_API_KEY |-> Unset,
     ANTHROPIC_API_KEY |-> Unset,
     MAX_TOKENS_PER_CHUNK |-> SetTo(budget)]

\* Texts of the budgets the chunker is run with.
BudgetTexts == {IntText(FALSE, <<0>>), IntText(FALSE, <<1, 0, 0>>)}

\* --------------------------------------------------- chunker, step by step
CurrentLoopState == LoopState(chunks, printed, current_chunk_files, current_tokens, chunk_id)

PipelineIdle ==
    /\ calls = <<>>
    /\ project_overview = PyNone
    /\ chunk_analyses = <<>>
    /\ chunk_idx = 0
    /\ analysis_results = PyNone
    /\ report = PyNone
    /\ report2 = PyNone
    /\ saved = <<>>
    /\ exit_status = -1

ChunkerIdle ==
    /\ sorted_files = <<>>
    /\ file_idx = 0
    /\ printed = <<>>
    /\ current_chunk_files = <<>>
    /\ current_tokens = 0
    /\ chunk_id = 0

InitChunker ==
    /\ code_files \in DocLists({".java"})
    /\ environ \in {RunEnviron(b) : b \in BudgetTexts}
    /\ config = from_env(environ)
    /\ max_tokens = config.max_tokens_per_chunk
    /\ sep_tokens \in SepValues
    /\ sorted_files = <<>>
    /\ file_idx = 0
    /\ chunks = <<>>
    /\ printed = <<>>
    /\ current_chunk_files = <<>>
    /\ current_tokens = 0
    /\ chunk_id = 0
    /\ pc = "start"
    /\ cc_visit = <<>>
    /\ now = 0
    /\ PipelineIdle

\* lines 61-69
SortFiles ==
    /\ pc = "start"
    /\ sorted_files' = sorted_by_path(code_files)
    /\ pc' = "loop"
    /\ UNCHANGED <<environ, config, code_files, max_tokens, sep_tokens, file_idx, chunks, printed,
                   current_chunk_files, current_tokens, chunk_id>>
    /\ UNCHANGED <<cc_visit, now, pipeline_vars>>

\* lines 71-104
LoopIteration ==
    /\ pc = "loop"
    /\ file_idx < Len(sorted_files)
    /\ LET s == LoopBody(CurrentLoopState, sorted_files[file_idx + 1]) IN
        /\ chunks' = s.chunks
        /\ printed' = s.printed
        /\ current_chunk_files' = s.current_chunk_files
        /\ current_tokens' = s.current_tokens
        /\ chunk_id' = s.chunk_id
    /\ file_idx' = file_idx + 1
    /\ UNCHANGED <<environ, config, code_files, max_tokens, sep_tokens, sorted_files, pc>>
    /\ UNCHANGED <<cc_visit, now, pipeline_vars>>

\* lines 106-114
Finalize ==
    /\ pc = "loop"
    /\ file_idx = Len(sorted_files)
    /\ LET s == FinalChunk(CurrentLoopState) IN
        /\ chunks' = s.chunks
        /\ printed' = s.printed
    /\ pc' = "done"
    /\ UNCHANGED <<environ, config, code_files, max_tokens, sep_tokens, sorted_files, file_idx,
                   current_chunk_files, current_tokens, chunk_id>>
    /\ UNCHANGED <<cc_visit, now, pipeline_vars>>

NextChunker == SortFiles \/ LoopIteration \/ Finalize

SpecChunker == InitChunker /\ [][NextChunker]_vars

\* ------------------------------------------------------------ pipeline
\* Latest clock reading of a run.
MaxClock == 2

\* A structured reply: one per-file entry with classes and key functions.
Methods(n) == [k \in 1..n |-> [name |-> k, complexity |-> "low"]]

Structured(path, nclasses, nmethods, nfuncs) ==
    PyDict([chunk_id |-> 0,
            files |-> PyList(<<
                PyDict([path |-> path,
                        classes |-> [k \in 1..nclasses |->
                                        [name |-> k, methods |-> Methods(nmethods)]],
                        key_functions |-> [k \in 1..nfuncs |->
                                        [name |-> k, description |-> "d"]]])>>)])

\* What the summarizer may do with a chunk call.
ChunkOutcomes ==
    { Reply(ObjectText(Structured("a", 3, 7, 30))),
      Reply(<<Ch("x"), Ch("fence"), Ch("json"), Ch(" ")>>
            \o ObjectText(Structured("b", 1, 2, 26))
            \o <<Ch(" "), Ch("fence"), Ch("x")>>),
      Reply(<<Ch("x"), Ch("x")>>),
      Reply(<<Ch("5")>>),
      Reply(ObjectText(PyDict([chunk_id |-> 0, files |-> PyNone]))),
      Reply(ObjectText(PyDict([chunk_id |-> 0]))),
      Fails }

\* What the summarizer may do with the overview call.
OverviewOutcomes ==
    { Reply(ObjectText(PyDict([project_name |-> "P"]))),
      Reply(<<Ch("x")>>),
      Reply(<<Ch("5")>>),
      Fails }

\* Results of cc_visit on one file's content.
Blocks(scores) ==
    [k \in 1..Len(scores) |->
        [name |-> k, complexity |-> scores[k], letter |-> "F", lineno |-> k]]

Raised == [raised |-> TRUE, blocks |-> <<>>]

Scored(scores) == [raised |-> FALSE, blocks |-> Blocks(scores)]

\* The documents of a pipeline run: path order, each its own size.
PipelineDocLists ==
    {cf \in DocLists({".java"}) :
        /\ \A i \in 1..Len(cf) : cf[i].relative_path = i /\ cf[i].tokens \in {40, 95}}

InitPipeline ==
    /\ code_files \in PipelineDocLists
    /\ environ = RunEnviron(IntText(FALSE, <<1, 0, 0>>))
    /\ config = from_env(environ)
    /\ max_tokens = config.max_tokens_per_chunk
    /\ sep_tokens \in SepValues
    /\ chunks = <<>>
    /\ pc = "clone"
    /\ cc_visit \in {[p \in Paths |-> Raised], [p \in Paths |-> Scored(<<12, 6, 2>>)]}
    /\ now = 0
    /\ ChunkerIdle
    /\ PipelineIdle

\* main returns 1 from an except branch (lines 107-114).
Abort ==
    /\ exit_status' = 1
    /\ pc' = "done"

\* main lines 47-59: RepositoryManager(), clone_repository, get_repository_info.
\* A failing clone raises out of the try block.
CloneRepository ==
    /\ pc = "clone"
    /\ \E ok \in BOOLEAN :
        IF ok THEN pc' = "read" /\ UNCHANGED exit_status ELSE Abort
    /\ UNCHANGED <<environ, config, code_files, max_tokens, sep_tokens, chunks, cc_visit, now, chunker_vars,
                   calls, project_overview, chunk_analyses, chunk_idx,
                   analysis_results, report, report2, saved>>

\* Mutant: the empty list is not told apart.
M_NoFiles(cf) == FALSE

\* main line 65: "not code_files".
NoFiles(cf) == cf = <<>>

\* main lines 61-72: read_codebase; no files ends the run with status 1.
ReadCodebase ==
    /\ pc = "read"
    /\ IF NoFiles(code_files)
       THEN exit_status' = 1 /\ pc' = "done"
       ELSE pc' = "overview" /\ UNCHANGED exit_status
    /\ UNCHANGED <<environ, config, code_files, max_tokens, sep_tokens, chunks, cc_visit, now, chunker_vars,
                   calls, project_overview, chunk_analyses, chunk_idx,
                   analysis_results, report, report2, saved>>

\* main line 77 and analyze_with_llm lines 160-165: the overview call.
GenerateOverview ==
    /\ pc = "overview"
    /\ \E outcome \in OverviewOutcomes :
        LET r == generate_project_overview(outcome) IN
        /\ calls' = Append(calls, [kind |-> "overview", text |-> <<>>, chunk_id |-> -1,
                                   outcome |-> outcome])
        /\ IF r.raised
           THEN Abort /\ UNCHANGED project_overview
           ELSE project_overview' = r.value /\ pc' = "chunking" /\ UNCHANGED exit_status
    /\ UNCHANGED <<environ, config, code_files, max_tokens, sep_tokens, chunks, cc_visit, now, chunker_vars,
                   chunk_analyses, chunk_idx, analysis_results, report, report2, saved>>

\* analyze_with_llm lines 167-172
CreateChunks ==
    /\ pc = "chunking"
    /\ chunks' = create_chunks(code_files)
    /\ chunk_analyses' = <<>>
    /\ pc' = "chunk_calls"
    /\ UNCHANGED <<environ, config, code_files, max_tokens, sep_tokens, cc_visit, now, chunker_vars,
                   calls, project_overview, chunk_idx, analysis_results, report,
                   report2, saved, exit_status>>

\* analyze_with_llm line 175: chunk_text of the chunk at position i (from 1).
ChunkText(i) == to_text(chunks[i].files)

\* Mutant: a raw partial is not kept.
M_Collect(cas, analysis) == IF IsRawPartial(analysis) THEN cas ELSE Append(cas, analysis)

\* analyze_with_llm line 177
Collect(cas, analysis) == Append(cas, analysis)

\* analyze_with_llm lines 174-177: one iteration of the chunk loop, the
\* summarizer doing one of the given things with the call.
AnalyzeChunkWith(outcomes) ==
    /\ pc = "chunk_calls"
    /\ chunk_idx < Len(chunks)
    /\ \E outcome \in outcomes :
        LET r == analyze_code_chunk(outcome, chunk_idx) IN
        /\ calls' = Append(calls, [kind |-> "chunk", text |-> ChunkText(chunk_idx + 1),
                                   chunk_id |-> chunk_idx, outcome |-> outcome])
        /\ IF r.raised
           THEN Abort /\ UNCHANGED <<chunk_analyses, chunk_idx>>
           ELSE /\ chunk_analyses' = Collect(chunk_analyses, r.value)
                /\ chunk_idx' = chunk_idx + 1
                /\ UNCHANGED <<pc, exit_status>>
    /\ UNCHANGED <<environ, config, code_files, max_tokens, sep_tokens, chunks, cc_visit, now, chunker_vars,
                   project_overview, analysis_results, report, report2, saved>>

AnalyzeChunk == AnalyzeChunkWith(ChunkOutcomes)

\* Mutant: the loop may be left before its last iteration.
M_LoopExhausted == TRUE

\* analyze_with_llm line 174: the for loop has gone through every chunk.
LoopExhausted == chunk_idx = Len(chunks)

\* analyze_with_llm lines 179-202: the metrics pass and the compiled results.
CompileResults ==
    /\ pc = "chunk_calls"
    /\ LoopExhausted
    /\ analysis_results' =
          [project_overview |-> project_overview,
           chunk_analyses |-> chunk_analyses,
           complexity_analysis |-> analyze_complexity(code_files),
           statistics |-> [total_files |-> Len(code_files), total_chunks |-> Len(chunks)]]
    /\ pc' = "format"
    /\ UNCHANGED <<environ, config, code_files, max_tokens, sep_tokens, chunks, cc_visit, now, chunker_vars,
                   calls, project_overview, chunk_analyses, chunk_idx, report,
                   report2, saved, exit_status>>

\* main lines 80-84: format_results; an exception in it ends the run with 1.
FormatResults ==
    /\ pc = "format"
    /\ LET r == format_results(analysis_results, now) IN
        IF r.raised
        THEN Abort /\ UNCHANGED report
        ELSE report' = r.value /\ pc' = "save" /\ UNCHANGED exit_status
    /\ UNCHANGED <<environ, config, code_files, max_tokens, sep_tokens, chunks, cc_visit, now, chunker_vars,
                   calls, project_overview, chunk_analyses, chunk_idx,
                   analysis_results, report2, saved>>

\* main lines 86-105: save_results, save_summary, return 0.
SaveResults ==
    /\ pc = "save"
    /\ saved' = <<[kind |-> "json", stamp |-> now], [kind |-> "summary", stamp |-> now]>>
    /\ exit_status' = 0
    /\ pc' = "done"
    /\ UNCHANGED <<environ, config, code_files, max_tokens, sep_tokens, chunks, cc_visit, now, chunker_vars,
                   calls, project_overview, chunk_analyses, chunk_idx,
                   analysis_results, report, report2>>

\* A further format_results call on the analysis results of the finished run.
FormatAgain ==
    /\ pc = "done"
    /\ exit_status = 0
    /\ report2 = PyNone
    /\ report2' = format_results(analysis_results, now).value
    /\ UNCHANGED <<environ, config, code_files, max_tokens, sep_tokens, chunks, cc_visit, now, chunker_vars,
                   calls, project_overview, chunk_analyses, chunk_idx,
                   analysis_results, report, saved, exit_status, pc>>

\* Time passes between the calls that read the clock.
Tick ==
    /\ pc \in {"format", "done"}
    /\ pc = "done" => (exit_status = 0 /\ report2 = PyNone)
    /\ now < MaxClock
    /\ now' = now + 1
    /\ UNCHANGED <<environ, config, code_files, max_tokens, sep_tokens, chunks, cc_visit, chunker_vars,
                   pipeline_vars, pc>>

NextPipeline ==
    \/ CloneRepository
    \/ ReadCodebase
    \/ GenerateOverview
    \/ CreateChunks
    \/ AnalyzeChunk
    \/ CompileResults
    \/ FormatResults
    \/ SaveResults
    \/ FormatAgain
    \/ Tick

SpecPipeline == InitPipeline /\ [][NextPipeline]_vars

\* ------------------------------------------------------------- startup
\* Environments a run may be started in.
Environs ==
    [LLM_PROVIDER : {Unset, SetTo("github"), SetTo("openai"), SetTo("anthropic"),
                     SetTo("azure")},
     GITHUB_TOKEN : {Unset, SetTo(""), SetTo("tok")},
     OPENAI_API_KEY : {Unset, SetTo(""), SetTo("tok")},
     ANTHROPIC_API_KEY : {Unset, SetTo(""), SetTo("tok")},
     MAX_TOKENS_PER_CHUNK : {Unset, SetTo(IntText(TRUE, <<1>>)), SetTo(IntText(FALSE, <<0>>)),
                             SetTo(IntText(FALSE, <<1, 0, 0>>))}]

\* The repository of a startup run: two files, in path order.
StartupDocs ==
    <<[relative_path |-> 1, extension |-> ".java", tokens |-> 40],
      [relative_path |-> 2, extension |-> ".java", tokens |-> 95]>>

\* The process before "from src.config import config" (main.py line 12) ran.
\* No CodeChunker exists yet; max_tokens is assigned when the config is there.
InitStartup ==
    /\ environ \in Environs
    /\ config = NotLoaded
    /\ code_files = StartupDocs
    /\ max_tokens = 0
    /\ sep_tokens = 0
    /\ chunks = <<>>
    /\ pc = "import"
    /\ cc_visit = [p \in Paths |-> Scored(<<12, 6, 2>>)]
    /\ now = 0
    /\ ChunkerIdle
    /\ PipelineIdle

\* main.py line 12 runs config.py line 115, config = Config.from_env(). A
\* ValidationError there is uncaught: the interpreter exits with status 1
\* before main() is entered. Otherwise main() starts; the budget every
\* CodeChunker will read (chunker.py line 46) is config.max_tokens_per_chunk.
ImportConfig ==
    /\ pc = "import"
    /\ config' = from_env(environ)
    /\ IF config'.state = "error"
       THEN pc' = "crashed" /\ exit_status' = 1 /\ UNCHANGED max_tokens
       ELSE /\ pc' = "clone"
            /\ max_tokens' = config'.max_tokens_per_chunk
            /\ UNCHANGED exit_status
    /\ UNCHANGED <<environ, code_files, sep_tokens, chunks, cc_visit, now, chunker_vars,
                   calls, project_overview, chunk_analyses, chunk_idx,
                   analysis_results, report, report2, saved>>

NextStartup ==
    \/ ImportConfig
    \/ CloneRepository
    \/ ReadCodebase
    \/ GenerateOverview
    \/ CreateChunks
    \/ AnalyzeChunk
    \/ CompileResults
    \/ FormatResults
    \/ SaveResults

SpecStartup == InitStartup /\ [][NextStartup]_vars

\* ------------------------------------------------------ response texts
\* Longest response text of a parsing run, in symbols.
MaxResponseLen == 5

\* The symbols of the response texts: the fence, the tag, a blank, a letter
\* and the JSON document 5.
ResponseSymbols == {Ch("fence"), Ch("json"), Ch(" "), Ch("x"), Ch("5")}

ResponseTexts == UNION {[1..n -> ResponseSymbols] : n \in 0..MaxResponseLen}

\* The run has read one document, got a prose overview and made the chunk; the
\* chunk loop is about to start.
InitParse ==
    /\ code_files = <<[relative_path |-> 1, extension |-> ".java", tokens |-> 40]>>
    /\ cc_visit = [p \in Paths |-> Scored(<<3>>)]
    /\ environ = RunEnviron(IntText(FALSE, <<1, 0, 0>>))
    /\ config = from_env(environ)
    /\ max_tokens = config.max_tokens_per_chunk
    /\ sep_tokens = 0
    /\ chunks = create_chunks(code_files)
    /\ pc = "chunk_calls"
    /\ now = 0
    /\ ChunkerIdle
    /\ project_overview = generate_project_overview(Reply(<<Ch("x")>>)).value
    /\ chunk_analyses = <<>>
    /\ chunk_idx = 0
    /\ calls = <<[kind |-> "overview", text |-> <<>>, chunk_id |-> -1,
                  outcome |-> Reply(<<Ch("x")>>)]>>
    /\ analysis_results = PyNone
    /\ report = PyNone
    /\ report2 = PyNone
    /\ saved = <<>>
    /\ exit_status = -1

\* The chunk call is answered with any of the response texts.
AnalyzeResponse == AnalyzeChunkWith({Reply(text) : text \in ResponseTexts})

NextParse == AnalyzeResponse \/ CompileResults \/ FormatResults \/ SaveResults

SpecParse == InitParse /\ [][NextParse]_vars

\* ------------------------------------------------------- chunker claims
RECURSIVE Flatten(_)
Flatten(cs) == IF cs = <<>> THEN <<>> ELSE Head(cs).files \o Flatten(Tail(cs))

Occurrences(d, s) == Cardinality({i \in 1..Len(s) : s[i] = d})

Reorderings(s) ==
    {[i \in 1..Len(s) |-> s[p[i]]] : p \in InjectiveSeqs(1..Len(s), Len(s))}

\* count_tokens(CodeChunk([d]).to_text()): the cost of a document on its own.
OwnCost(d) == count_tokens(to_text(<<d>>))

\* C1 (coverage): with a budget > 0, the chunks returned by create_chunks,
\* concatenated in chunk order, hold every input document exactly once.
C1_Coverage ==
    (pc = "done" /\ max_tokens > 0) =>
        /\ Len(Flatten(chunks)) = Len(code_files)
        /\ \A d \in Range(code_files) : Occurrences(d, Flatten(chunks)) = 1

C1_Witness ==
    /\ pc = "done" /\ max_tokens > 0
    /\ Len(code_files) = MaxDocs
    /\ Len(chunks) = 2
    /\ printed[2].large /\ ~printed[1].large

\* C2 (budget respect): with a budget > 0, every chunk's serialized text costs
\* at most max_tokens, or the chunk holds one document and was emitted through
\* the "(large)" path.
C2_BudgetRespect ==
    max_tokens > 0 =>
        \A i \in 1..Len(chunks) :
            \/ count_tokens(to_text(chunks[i].files)) <= max_tokens
            \/ (Len(chunks[i].files) = 1 /\ printed[i].large)

C2_Witness ==
    /\ pc = "done" /\ max_tokens > 0
    /\ \E i \in 1..Len(chunks) :
          Len(chunks[i].files) = 2 /\ count_tokens(to_text(chunks[i].files)) = max_tokens
    /\ \E i \in 1..Len(chunks) :
          printed[i].large /\ count_tokens(to_text(chunks[i].files)) > max_tokens

\* C3 (oversized singleton): a chunk is emitted through the "(large)" path iff
\* it holds exactly one document whose own cost is > max_tokens, and every
\* document whose own cost is > max_tokens ends up alone in such a chunk.
C3_OversizedIff ==
    max_tokens > 0 =>
        /\ \A i \in 1..Len(chunks) :
              printed[i].large <=>
                (Len(chunks[i].files) = 1 /\ OwnCost(chunks[i].files[1]) > max_tokens)
        /\ pc = "done" =>
              \A d \in Range(code_files) :
                  OwnCost(d) > max_tokens =>
                      \E i \in 1..Len(chunks) : chunks[i].files = <<d>> /\ printed[i].large

\* C4 (determinism): the chunk sequence returned for the input list is the
\* one create_chunks returns for every other enumeration order of the same
\* documents.
C4_Determinism ==
    pc = "done" =>
        \A other \in Reorderings(code_files) : create_chunks(other) = chunks

C4_Witness ==
    /\ pc = "done"
    /\ Len(code_files) = MaxDocs
    /\ code_files # sorted_files
    /\ Len(chunks) >= 2
    /\ \E i \in 1..Len(chunks) : Len(chunks[i].files) >= 2

\* C17: no chunk of the returned sequence is empty, and an empty document list
\* gives the empty sequence.
C17_NoEmptyChunk ==
    /\ \A i \in 1..Len(chunks) : chunks[i].files # <<>>
    /\ (pc = "done" /\ code_files = <<>>) => chunks = <<>>

\* create_chunks returned with nothing pending after the loop: the last file
\* went out through the single-file path and no final chunk was appended.
C17_Witness ==
    /\ pc = "done"
    /\ Len(code_files) = MaxDocs
    /\ current_chunk_files = <<>>
    /\ Len(chunks) >= 2
    /\ printed[Len(chunks)].large

\* C18 (sequence numbers): the chunk at position i (from 0) has chunk_id i.
C18_SequenceNumbers ==
    \A i \in 1..Len(chunks) : chunks[i].chunk_id = i - 1

\* A sealed pending chunk of two files is directly followed by a single-file
\* chunk, and a further chunk follows.
C18_Witness ==
    /\ pc = "done"
    /\ Len(chunks) >= 3
    /\ \E i \in 1..(Len(chunks) - 1) :
          ~printed[i].large /\ printed[i + 1].large /\ chunks[i + 1].chunk_id = i

\* One step of the stated single-pass algorithm on the state <<sealed chunks,
\* pending>>: (b) an oversized document met with nothing pending goes out
\* alone; (c) a document that overflows a non-empty pending list seals it and
\* starts the next pending list, unless it is oversized itself; (d) otherwise
\* the document joins the pending list.
StatedStep(st, d) ==
    LET candidate_cost == count_tokens(to_text(Append(st.pending, d)))
    IN IF st.pending = <<>> /\ candidate_cost > max_tokens
       THEN [sealed |-> Append(st.sealed, <<d>>), pending |-> <<>>]
       ELSE IF candidate_cost > max_tokens
       THEN IF OwnCost(d) > max_tokens
            THEN [sealed |-> st.sealed \o <<st.pending, <<d>>>>, pending |-> <<>>]
            ELSE [sealed |-> Append(st.sealed, st.pending), pending |-> <<d>>]
       ELSE [sealed |-> st.sealed, pending |-> Append(st.pending, d)]

\* The chunk boundaries of the stated algorithm on a path-ordered list.
StatedBoundaries(files) ==
    LET st == FoldLeft(StatedStep, [sealed |-> <<>>, pending |-> <<>>], files)
    IN IF st.pending = <<>> THEN st.sealed ELSE Append(st.sealed, st.pending)

\* C19 (greedy step (c)): with a budget > 0, create_chunks cuts the sorted
\* documents at the boundaries of the stated single-pass algorithm: a document
\* that overflows a non-empty pending list but fits the budget on its own
\* starts the next pending list, and later documents join it while they fit.
C19_GreedyBoundaries ==
    (pc = "done" /\ max_tokens > 0) =>
        [i \in 1..Len(chunks) |-> chunks[i].files] = StatedBoundaries(sorted_files)

\* C20 (recorded cost): every chunk's token_count is the cost of the chunk's
\* own serialized text.
C20_RecordedCost ==
    \A i \in 1..Len(chunks) :
        chunks[i].token_count = count_tokens(to_text(chunks[i].files))

\* C25 (pending window): with a budget > 0, before every loop iteration and
\* after the loop, current_tokens is the cost of the serialized pending list
\* (0 for the empty list) and at most max_tokens; every chunk sealed from the
\* pending list, the final one included, records its actual cost, which is at
\* most max_tokens.
C25_PendingWindow ==
    (max_tokens > 0 /\ pc \in {"loop", "done"}) =>
        /\ current_tokens = count_tokens(to_text(current_chunk_files))
        /\ current_tokens <= max_tokens
        /\ \A i \in 1..Len(chunks) :
              ~printed[i].large =>
                 /\ chunks[i].token_count = count_tokens(to_text(chunks[i].files))
                 /\ chunks[i].token_count <= max_tokens

\* The loop stands before its third iteration with two files pending that
\* fill the budget exactly, the join included.
C25_Witness ==
    /\ pc = "loop"
    /\ file_idx = 2
    /\ Len(sorted_files) = MaxDocs
    /\ Len(current_chunk_files) = 2
    /\ sep_tokens > 0
    /\ current_tokens = max_tokens


\* ------------------------------------------------------ pipeline claims
IsChunkCall(c) == c.kind = "chunk"

\* The chunk calls made so far, in the order they were made.
ChunkCalls == SelectSeq(calls, IsChunkCall)

\* C5 (alignment): when analyze_with_llm has completed, there are as many
\* partial results as chunks, and the i-th partial result is the one obtained
\* from the i-th chunk call, which was made with the text of the i-th chunk.
C5_Alignment ==
    analysis_results # PyNone =>
        /\ Len(analysis_results.chunk_analyses) = Len(chunks)
        /\ Len(ChunkCalls) = Len(chunks)
        /\ \A i \in 1..Len(chunks) :
            /\ ChunkCalls[i].text = to_text(chunks[i].files)
            /\ ChunkCalls[i].chunk_id = i - 1
            /\ ~ChunkCalls[i].outcome.failed
            /\ analysis_results.chunk_analyses[i] =
                  ParseChunkResponse(ChunkCalls[i].outcome.content, i - 1)

C5_Witness ==
    /\ analysis_results # PyNone
    /\ Len(chunks) = MaxDocs
    /\ IsRawPartial(analysis_results.chunk_analyses[1])
    /\ ~IsRawPartial(analysis_results.chunk_analyses[2])
    /\ analysis_results.chunk_analyses[2] # analysis_results.chunk_analyses[3]

\* A parsed response of the expected shape: an object whose "files" is a list
\* of per-file objects.
IsDictValue(e) == e.t = "dict"

WellFormed(value) ==
    /\ value.t = "dict"
    /\ "files" \in DOMAIN value.v
    /\ value.v.files.t = "list"
    /\ \A k \in 1..Len(value.v.files.v) : IsDictValue(value.v.files.v[k])

\* A reply that is not parseable, or parseable but not of the expected shape.
Malformed(outcome) ==
    /\ ~outcome.failed
    /\ LET parsed == json_loads(ExtractPayload(outcome.content))
       IN ~parsed.ok \/ ~WellFormed(parsed.value)

IsStructured(p) == WellFormed(p) /\ ~IsRawPartial(p)

\* The classes of the well-formed chunks, in chunk order.
ClassesOfWellFormed ==
    ChunkContributions(EmptyAccumulators, SelectSeq(chunk_analyses, IsStructured)).all_classes

\* C6 (per-chunk degradation): in a run whose chunk calls all returned, every
\* malformed response yields a raw partial, and the run ends with success
\* status and a Report holding exactly the classes of the well-formed chunks.
C6_Degradation ==
    (pc = "done" /\ analysis_results # PyNone) =>
        /\ \A i \in 1..Len(ChunkCalls) :
              Malformed(ChunkCalls[i].outcome) => IsRawPartial(chunk_analyses[i])
        /\ exit_status = 0
        /\ report # PyNone
        /\ report.detailed_analysis.classes = ClassesOfWellFormed

\* The positions in calls of the chunk calls that failed in transport.
FailedChunkCalls ==
    {k \in 1..Len(calls) : calls[k].kind = "chunk" /\ calls[k].outcome.failed}

RECURSIVE FunctionsOfEntries(_)
FunctionsOfEntries(entries) ==
    IF entries = <<>> THEN <<>>
    ELSE LET e == Head(entries).v
             fs == IF "key_functions" \in DOMAIN e THEN e.key_functions ELSE <<>>
         IN [j \in 1..Len(fs) |->
                [name |-> fs[j].name,
                 file |-> IF "path" \in DOMAIN e THEN e.path ELSE "unknown",
                 description |-> fs[j].description]]
            \o FunctionsOfEntries(Tail(entries))

\* All key functions of the structured partials, in chunk order and then
\* within-chunk order.
RECURSIVE FunctionsOfPartials(_)
FunctionsOfPartials(ps) ==
    IF ps = <<>> THEN <<>>
    ELSE (IF WellFormed(Head(ps)) THEN FunctionsOfEntries(Head(ps).v.files.v) ELSE <<>>)
         \o FunctionsOfPartials(Tail(ps))

\* C8 (function cap): the Report's key-function list is the first min(N, 50)
\* of the N key functions of all structured partials, in chunk order then
\* within-chunk order, each tagged with the path of its per-file entry.
C8_FunctionCap ==
    report # PyNone =>
        LET all == FunctionsOfPartials(chunk_analyses)
            kept == report.detailed_analysis.key_functions
        IN /\ Len(kept) = Min(Len(all), MaxKeyFunctions)
           /\ \A j \in 1..Len(kept) : kept[j] = all[j]

C8_Witness ==
    /\ report # PyNone
    /\ Len(FunctionsOfPartials(chunk_analyses)) > MaxKeyFunctions
    /\ Len(report.detailed_analysis.key_functions) = MaxKeyFunctions
    /\ report.detailed_analysis.key_functions[1].file = "a"
    /\ report.detailed_analysis.key_functions[MaxKeyFunctions].file = "b"

\* C21 (sequential pipeline order): the first summarizer call is the one
\* overview call; every later call is a chunk call and the k-th of them is for
\* chunk k - 1; no chunk call is made before the chunks exist; a chunk call is
\* issued only when all earlier ones have returned and left their partial;
\* the metrics pass has run only when one call per chunk has returned.
C21_SequentialOrder ==
    /\ calls # <<>> => calls[1].kind = "overview"
    /\ \A k \in 2..Len(calls) : calls[k].kind = "chunk" /\ calls[k].chunk_id = k - 2
    /\ Len(ChunkCalls) <= Len(chunks)
    /\ \A k \in 1..(Len(ChunkCalls) - 1) :
          ~ChunkCalls[k].outcome.failed /\ Len(chunk_analyses) >= k
    /\ Len(chunk_analyses) <= Len(ChunkCalls)
    /\ analysis_results # PyNone =>
          /\ Len(ChunkCalls) = Len(chunks)
          /\ Len(chunk_analyses) = Len(chunks)
          /\ \A k \in 1..Len(ChunkCalls) : ~ChunkCalls[k].outcome.failed

\* The metrics pass has run after an overview call and three chunk calls.
C21_Witness ==
    /\ analysis_results # PyNone
    /\ Len(chunks) = 3
    /\ Len(calls) = 4
    /\ calls[4].chunk_id = 2

\* C26 (empty run): when read_codebase returned no documents, main ends with
\* status 1; no chunker or summarizer was used and nothing was formatted or
\* written.
C26_EmptyRun ==
    (code_files = <<>> /\ pc \notin {"clone", "read"}) =>
        /\ pc = "done"
        /\ exit_status = 1
        /\ calls = <<>>
        /\ chunks = <<>>
        /\ analysis_results = PyNone
        /\ report = PyNone
        /\ saved = <<>>

\* The run over an empty repository has ended.
C26_Witness ==
    /\ code_files = <<>>
    /\ pc = "done"
    /\ exit_status = 1
    /\ calls = <<>>
    /\ saved = <<>>

\* The classes of the per-file entries of one partial: name, path of the
\* entry, number of methods and the first methods up to the cap.
RECURSIVE ClassesOfEntries(_)
ClassesOfEntries(entries) ==
    IF entries = <<>> THEN <<>>
    ELSE LET e == Head(entries).v
             cs == IF "classes" \in DOMAIN e THEN e.classes ELSE <<>>
         IN [j \in 1..Len(cs) |->
                [name |-> cs[j].name,
                 file |-> IF "path" \in DOMAIN e THEN e.path ELSE "unknown",
                 method_count |-> Len(cs[j].methods),
                 key_methods |->
                    [k \in 1..Min(Len(cs[j].methods), MaxKeyMethods) |->
                        [name |-> cs[j].methods[k].name,
                         complexity |-> cs[j].methods[k].complexity]]]]
            \o ClassesOfEntries(Tail(entries))

\* All classes of the structured partials, in chunk order and then in-chunk
\* order.
RECURSIVE ClassesOfPartials(_)
ClassesOfPartials(ps) ==
    IF ps = <<>> THEN <<>>
    ELSE (IF WellFormed(Head(ps)) THEN ClassesOfEntries(Head(ps).v.files.v) ELSE <<>>)
         \o ClassesOfPartials(Tail(ps))

\* C16 (class merge): the Report's class list holds every class of every
\* structured partial, uncapped, in chunk order then in-chunk order; each
\* class keeps the first min(m, 5) of its m methods and method_count is m.
C16_ClassMerge ==
    report # PyNone =>
        /\ report.detailed_analysis.classes = ClassesOfPartials(chunk_analyses)
        /\ report.detailed_analysis.total_classes_identified
              = Len(ClassesOfPartials(chunk_analyses))

\* Two structured partials gave four classes: three with 7 methods of which 5
\* are kept, then one with 2 methods.
C16_Witness ==
    /\ report # PyNone
    /\ Len(report.detailed_analysis.classes) = 4
    /\ report.detailed_analysis.classes[1].file = "a"
    /\ report.detailed_analysis.classes[1].method_count = 7
    /\ Len(report.detailed_analysis.classes[1].key_methods) = MaxKeyMethods
    /\ report.detailed_analysis.classes[4].file = "b"
    /\ report.detailed_analysis.classes[4].method_count = 2
    /\ Len(report.detailed_analysis.classes[4].key_methods) = 2

WithoutDate(r) == [r EXCEPT !.metadata.analysis_date = 0]

MaxMetricsDocs == 22

\* What a document is to the metrics pass: a type outside the supported set,
\* a file cc_visit fails on, or a file with the given block scores.
MetricsKinds == {"other", "raise", "low", "medium", "high", "many"}

KindExtension(kind) == IF kind = "other" THEN ".md" ELSE ".java"

KindOutcome(kind) ==
    IF kind = "low" THEN Scored(<<3>>)
    ELSE IF kind = "medium" THEN Scored(<<7, 2>>)
    ELSE IF kind = "high" THEN Scored(<<12, 6, 2>>)
    ELSE IF kind = "many" THEN Scored(<<6, 2, 7, 8, 3, 9, 6, 6, 7, 8, 9, 6, 11, 7>>)
    ELSE Raised

\* The path at position i of a list of n documents, ascending or descending.
PathAt(i, n, descending) == IF descending THEN n + 1 - i ELSE i

\* The run has read its documents, got an overview and a prose reply to every
\* chunk call, and is about to start the metrics pass.
InitMetrics ==
    /\ \E n \in 1..MaxMetricsDocs, profile \in [0..2 -> MetricsKinds], descending \in BOOLEAN :
        /\ code_files =
              [i \in 1..n |->
                  [relative_path |-> PathAt(i, n, descending),
                   extension |-> KindExtension(profile[PathAt(i, n, descending) % 3]),
                   tokens |-> 40]]
        /\ cc_visit = [p \in 1..n |-> KindOutcome(profile[p % 3])]
    /\ environ = RunEnviron(IntText(FALSE, <<1, 0, 0>>))
    /\ config = from_env(environ)
    /\ max_tokens = config.max_tokens_per_chunk
    /\ sep_tokens = 0
    /\ chunks = create_chunks(code_files)
    /\ pc = "chunk_calls"
    /\ now = 0
    /\ ChunkerIdle
    /\ project_overview = generate_project_overview(Reply(<<Ch("x")>>)).value
    /\ chunk_analyses = [i \in 1..Len(chunks) |-> RawPartial(i - 1, <<Ch("x")>>)]
    /\ chunk_idx = Len(chunks)
    /\ calls = <<[kind |-> "overview", text |-> <<>>, chunk_id |-> -1,
                  outcome |-> Reply(<<Ch("x")>>)]>>
               \o [i \in 1..Len(chunks) |->
                     [kind |-> "chunk", text |-> to_text(chunks[i].files),
                      chunk_id |-> i - 1, outcome |-> Reply(<<Ch("x")>>)]]
    /\ analysis_results = PyNone
    /\ report = PyNone
    /\ report2 = PyNone
    /\ saved = <<>>
    /\ exit_status = -1

NextMetrics == CompileResults \/ FormatResults \/ SaveResults

SpecMetrics == InitMetrics /\ [][NextMetrics]_vars

\* -------------------------------------------------------- metrics claims
\* The positions of the documents that were scored with a maximum above 10.
QualifyingFiles ==
    {i \in 1..Len(code_files) :
        /\ code_files[i].extension \in {".py", ".java"}
        /\ ~cc_visit[code_files[i].relative_path].raised
        /\ \E k \in 1..Len(cc_visit[code_files[i].relative_path].blocks) :
              cc_visit[code_files[i].relative_path].blocks[k].complexity > HighComplexity}

Scorable(file) ==
    file.extension \in {".py", ".java"} /\ ~cc_visit[file.relative_path].raised

\* Largest score of a document's blocks (0 without blocks).
TopScore(file) ==
    LET blocks == cc_visit[file.relative_path].blocks
    IN IF blocks = <<>> THEN 0
       ELSE CHOOSE m \in {blocks[k].complexity : k \in 1..Len(blocks)} :
               \A k \in 1..Len(blocks) : blocks[k].complexity <= m

\* C13: a document cc_visit fails on, or of an unsupported type, has no
\* entry; the entries, the high-complexity list, the total and the analyzed
\* count are the ones the remaining documents alone give; the metrics pass
\* completes.
C13_BestEffort ==
    analysis_results # PyNone =>
        LET ca == analysis_results.complexity_analysis
            kept == SelectSeq(code_files, Scorable)
            alone == analyze_complexity(kept)
        IN /\ [k \in 1..Len(ca.files) |-> ca.files[k].path]
                 = [k \in 1..Len(kept) |-> kept[k].relative_path]
           /\ ca.files = alone.files
           /\ ca.summary.high_complexity_files = alone.summary.high_complexity_files
           /\ ca.summary.analyzed_files = Len(kept)
           /\ ca.summary.average_complexity = alone.summary.average_complexity
           /\ ca.summary.total_files = Len(code_files)

\* The metrics pass is over with a failed, an unsupported and a scored document.
C13_Witness ==
    /\ analysis_results # PyNone
    /\ \E i \in 1..Len(code_files) :
          code_files[i].extension = ".java" /\ cc_visit[code_files[i].relative_path].raised
    /\ \E i \in 1..Len(code_files) : code_files[i].extension \notin {".py", ".java"}
    /\ \E i \in 1..Len(code_files) :
          Scorable(code_files[i]) /\ TopScore(code_files[i]) > HighComplexity
    /\ Len(analysis_results.complexity_analysis.files) >= 2

\* The first 10 blocks of a document scored above 5, as the Report keeps them.
RetainedBlocks(file) ==
    LET blocks == cc_visit[file.relative_path].blocks
        Above(b) == b.complexity > ComplexScore
        fs == SelectSeq(blocks, Above)
        n == Min(Len(fs), MaxComplexFunctions)
    IN [k \in 1..n |-> [name |-> fs[k].name, complexity |-> fs[k].complexity,
                        line |-> fs[k].lineno]]

\* C14 as stated: detailed_metrics lists a file only if its maximum score
\* exceeds 10, and keeps for it the first 10 of its blocks scored above 5.
C14_DetailedOnlyHigh ==
    report # PyNone =>
        \A k \in 1..Len(report.complexity_analysis.detailed_metrics) :
            LET entry == report.complexity_analysis.detailed_metrics[k]
            IN \E i \in 1..Len(code_files) :
                  /\ code_files[i].relative_path = entry.file
                  /\ Scorable(code_files[i])
                  /\ TopScore(code_files[i]) > HighComplexity
                  /\ entry.complex_functions = RetainedBlocks(code_files[i])

\* C14 (amended): detailed_metrics lists, in input order and up to 20, the
\* scored files whose maximum score exceeds 5, and keeps for each the first 10
\* (in original order) of its blocks scored above 5.
C14_DetailedAboveFive ==
    report # PyNone =>
        LET IsComplex(file) == Scorable(file) /\ TopScore(file) > ComplexScore
            complex == SelectSeq(code_files, IsComplex)
            dm == report.complexity_analysis.detailed_metrics
        IN /\ Len(dm) = Min(Len(complex), MaxDetailedFiles)
           /\ \A k \in 1..Len(dm) :
                 /\ dm[k].file = complex[k].relative_path
                 /\ dm[k].max_complexity = TopScore(complex[k])
                 /\ dm[k].complex_functions = RetainedBlocks(complex[k])

\* The Report lists a file whose maximum is 7, and a file with twelve blocks
\* above 5 of which ten are kept.
C14_Witness ==
    /\ report # PyNone
    /\ \E k \in 1..Len(report.complexity_analysis.detailed_metrics) :
          report.complexity_analysis.detailed_metrics[k].max_complexity = 7
    /\ \E k \in 1..Len(report.complexity_analysis.detailed_metrics) :
          LET entry == report.complexity_analysis.detailed_metrics[k]
          IN /\ Len(entry.complex_functions) = MaxComplexFunctions
             /\ \E i \in 1..Len(code_files) :
                   /\ code_files[i].relative_path = entry.file
                   /\ Len(cc_visit[entry.file].blocks) > MaxComplexFunctions + 2

RECURSIVE TopScoreSum(_)
TopScoreSum(files) ==
    IF files = <<>> THEN 0 ELSE TopScore(Head(files)) + TopScoreSum(Tail(files))

\* C15: average_complexity (in hundredths) is the sum of the maximum scores
\* of the scored files divided by their number, to the nearest hundredth, and
\* 0 when no file was scored; analyzed_files is that number.
C15_Average ==
    analysis_results # PyNone =>
        LET kept == SelectSeq(code_files, Scorable)
            total == TopScoreSum(kept)
            count == Len(kept)
            avg == analysis_results.complexity_analysis.summary.average_complexity
        IN /\ analysis_results.complexity_analysis.summary.analyzed_files = count
           /\ count = 0 => avg = 0
           /\ count > 0 =>
                 /\ 2 * (100 * total - avg * count) <= count
                 /\ 2 * (avg * count - 100 * total) <= count

\* Three documents were scored next to skipped ones and the quotient rounds up.
C15_Witness ==
    /\ analysis_results # PyNone
    /\ Len(SelectSeq(code_files, Scorable)) = 3
    /\ Len(code_files) > 3
    /\ TopScoreSum(SelectSeq(code_files, Scorable)) = 17
    /\ analysis_results.complexity_analysis.summary.average_complexity = 567

\* C23 (ordering of the complexity lists): the files of the Report's
\* complexity lists are in path order, and the lists are the ones the
\* path-ordered enumeration of the same documents gives, cap included.
C23_PathSortedLists ==
    report # PyNone =>
        LET dm == report.complexity_analysis.detailed_metrics
            high == report.complexity_analysis.high_complexity_files
        IN /\ \A j, k \in 1..Len(dm) : j < k => dm[j].file < dm[k].file
           /\ \A j, k \in 1..Len(high) : j < k => high[j].path < high[k].path
           /\ report.complexity_analysis
                 = format_complexity_analysis(analyze_complexity(sorted_by_path(code_files)))

\* ------------------------------------------------------- parsing claims
\* C22: whenever parsing of a chunk response fails, the raw partial carries
\* the response text exactly as the summarizer returned it.
C22_RawResponseKept ==
    \A k \in 1..Len(chunk_analyses) :
        IsRawPartial(chunk_analyses[k]) =>
            chunk_analyses[k].v.raw_response = ChunkCalls[k].outcome.content

\* The text from position first up to the next fence, or up to the end of
\* the response when no fence follows.
UpToNextFence(response, first) ==
    LET close == FindFence(response, first)
    IN IF close = 0 THEN SubSeq(response, first, Len(response))
       ELSE SubSeq(response, first, close - 1)

\* The payload as stated: after the tag of the first tagged fence if there is
\* one, else after the first fence if there is one, else the whole response.
StatedPayload(response) ==
    IF FindTagged(response) # 0 THEN UpToNextFence(response, FindTagged(response) + 2)
    ELSE IF FindFence(response, 1) # 0 THEN UpToNextFence(response, FindFence(response, 1) + 1)
    ELSE response

\* C24 (payload location): the text handed to json.loads is, up to the
\* surrounding blanks json.loads ignores, the stated payload; in particular
\* nothing of it is lost when the closing fence is missing.
C24_PayloadLocation ==
    \A k \in 1..Len(ChunkCalls) :
        ~ChunkCalls[k].outcome.failed =>
            Strip(ExtractPayload(ChunkCalls[k].outcome.content))
                = Strip(StatedPayload(ChunkCalls[k].outcome.content))

\* ------------------------------------------------------- startup claims
\* The chunker has run in this state.
ChunkerHasRun == pc \in {"chunk_calls", "format", "save"} \/ (pc = "done" /\ chunks # <<>>)

\* The variable is set to the text of an integer <= 0.
NonPositiveBudget == environ["MAX_TOKENS_PER_CHUNK"].set
                     /\ int(environ["MAX_TOKENS_PER_CHUNK"].value) <= 0

\* C11: a non-positive MAX_TOKENS_PER_CHUNK is rejected when the configuration
\* is constructed, and create_chunks never runs with max_tokens <= 0.
C11_NonPositiveBudgetRejected ==
    /\ (pc # "import" /\ NonPositiveBudget) => config.state = "error"
    /\ ChunkerHasRun => max_tokens > 0

\* The provider selector is outside the supported set.
UnsupportedProvider ==
    getenv(environ, "LLM_PROVIDER", "github") \notin {"github", "openai", "anthropic"}

\* The credential of the selected provider is absent or empty.
MissingCredential ==
    LET provider == getenv(environ, "LLM_PROVIDER", "github")
    IN \/ provider = "github" /\ Falsy(environ["GITHUB_TOKEN"])
       \/ provider = "openai" /\ Falsy(environ["OPENAI_API_KEY"])
       \/ provider = "anthropic" /\ Falsy(environ["ANTHROPIC_API_KEY"])

\* C12: with an unsupported provider selector or a missing credential of the
\* selected provider, constructing the configuration fails and the run ends
\* there: nothing is cloned, no document is read, no summarizer call is made.
C12_InvalidConfigAborts ==
    (UnsupportedProvider \/ MissingCredential) =>
        /\ pc \in {"import", "crashed"}
        /\ pc = "crashed" => (config = ValidationError /\ exit_status = 1)
        /\ calls = <<>>
        /\ chunks = <<>>
        /\ saved = <<>>

\* A run with the OpenAI provider and an empty key has crashed at import.
C12_Witness ==
    /\ pc = "crashed"
    /\ environ["LLM_PROVIDER"] = SetTo("openai")
    /\ environ["OPENAI_API_KEY"] = SetTo("")
    /\ environ["GITHUB_TOKEN"] = SetTo("tok")
    /\ config = ValidationError

=============================================================================
